---------------------------- MODULE Spec2Model ----------------------------
(***************************************************************************)
(* RGBot (src/src/main.rs): a Discord bot that gives the author of a       *)
(* message "#RRGGBB" a role of that colour and deletes the colour roles    *)
(* nobody uses.                                                            *)
(*                                                                         *)
(* The model keeps two copies of the guild, as the program does:           *)
(*   - the platform's guild (roles, memberRoles), changed only by the HTTP *)
(*     calls create_role, edit_member (remove_roles), add_member_role      *)
(*     (add_role) and delete_role;                                         *)
(*   - the cached guild behind Arc<RwLock<Guild>> (cacheRoles,             *)
(*     cacheMembers), which main.rs only reads (guild.read()...) and which *)
(*     the client's shard updates from the gateway events, in the order    *)
(*     the platform sent them.  create_role and delete_role are called on  *)
(*     a guild bound immutably (main.rs:64, 101) and add_role/remove_roles *)
(*     on an owned Member (main.rs:75): none of them changes the cache.    *)
(* Every message is handled on a thread of the pool (main.rs:113-114).     *)
(*                                                                         *)
(* The platform, as the calls of main.rs meet it:                          *)
(*   - any call may fail (DiscordError);                                   *)
(*   - create_role gives the role a fresh id; names need not be unique;    *)
(*   - a deleted role is taken from every member; deleting, adding or      *)
(*     listing (edit_member) a role the guild does not have fails;         *)
(*   - every change of the guild's roles or of a member's roles is sent    *)
(*     to the shard as a gateway event, after the messages and changes     *)
(*     that came before it.                                                *)
(* The guild's "colors" role is not changed during a run.                  *)
(***************************************************************************)
EXTENDS Integers, Sequences, FiniteSets, TLC

(* ------------------------------ bounds -------------------------------- *)
\* messages posted in one run; each is handled by its own pool thread
MaxMessages == 2

Handlers == 1..MaxMessages
Members == {"m1", "m2"}
None == "none"

(* ------------------------------ text ---------------------------------- *)
UpperHex == <<"0","1","2","3","4","5","6","7","8","9","A","B","C","D","E","F">>
LowerHex == <<"0","1","2","3","4","5","6","7","8","9","a","b","c","d","e","f">>

IsHexDigit(ch) == \E i \in 1..16 : UpperHex[i] = ch \/ LowerHex[i] = ch

\* u8::from_str_radix(.., 16) of one digit
HexValue(ch) == (CHOOSE i \in 1..16 : UpperHex[i] = ch \/ LowerHex[i] = ch) - 1

\* a faulty pattern, the closing $ left out: text may follow the digits
color_regex_is_match_unanchored(text) ==
    /\ Len(text) >= 7
    /\ text[1] = "#"
    /\ \A i \in 2..7 : IsHexDigit(text[i])

\* ^#([A-Fa-f0-9]{2})([A-Fa-f0-9]{2})([A-Fa-f0-9]{2})$
color_regex_is_match(text) ==
    /\ Len(text) = 7
    /\ text[1] = "#"
    /\ \A i \in 2..7 : IsHexDigit(text[i])

HexByte(text, i) == HexValue(text[i]) * 16 + HexValue(text[i + 1])

\* Some(Colour::from_rgb(r, g, b)) of the three captures, or None: an Option
\* is a sequence of at most one value
parse_color(text) ==
    IF color_regex_is_match(text)
    THEN <<HexByte(text, 2) * 65536 + HexByte(text, 4) * 256 + HexByte(text, 6)>>
    ELSE <<>>

\* format!("#{}", color.hex()): Colour::hex is {:06X}
HexDigitOf(colour, k) == UpperHex[((colour \div (16 ^ k)) % 16) + 1]

role_name(colour) ==
    <<"#", HexDigitOf(colour, 5), HexDigitOf(colour, 4), HexDigitOf(colour, 3),
      HexDigitOf(colour, 2), HexDigitOf(colour, 1), HexDigitOf(colour, 0)>>

AnchorName == <<"c","o","l","o","r","s">>
ModName == <<"m","o","d">>

(* ----------------------------- messages ------------------------------- *)
TextA == <<"#","a","b","c","d","e","f">>
TextB == <<"#","F","F","0","0","A","A">>
TextLow == <<"#","3","6","3","9","3","e">>
TextBad == <<"a","b","c","d","e","f">>

\* texts that are not exactly "#" and six hex digits: the "#" missing, a
\* character before or after, too few digits, a digit that is not hex, a
\* colour inside a sentence, nothing at all
BadTexts ==
    {TextBad,
     <<" ","#","a","b","c","d","e","f">>,
     <<"#","a","b","c","d","e","f","0">>,
     <<"#","a","b","c","d","e">>,
     <<"#","a","b","c","d","e","g">>,
     <<"m","y"," ","#","a","b","c","d","e","f"," ","!">>,
     <<>>}

Texts == {TextA, TextB, TextLow} \cup BadTexts

\* the colours the messages name: 0xABCDEF, 0xFF00AA and 0x36393E
ColourA == parse_color(TextA)[1]
ColourB == parse_color(TextB)[1]
ColourLow == parse_color(TextLow)[1]

\* the fixed background the contrast is taken against, 0x36393E
Background == 3553598

\* the contrast ratio (L_lighter + 0.05) / (L_darker + 0.05) of a colour
\* against the background, times 100 and rounded, for the colours above:
\* 7.02, 3.22 and, for the background itself, 1.00
ContrastX100(colour) ==
    CASE colour = Background -> 100
      [] colour = ColourA -> 702
      [] colour = ColourB -> 322

MinContrastX100 == 200

isAcceptable(colour) == ContrastX100(colour) > MinContrastX100

(* ------------------------------ state --------------------------------- *)
VARIABLES
    roles,          \* the platform's roles of the guild: records
    nextId,         \* the id the platform gives the next role
    memberRoles,    \* the platform's role ids of each member
    cacheRoles,     \* guild.roles of the cached guild
    cacheMembers,   \* guild.members[..].roles of the cached guild
    gateway,        \* gateway events sent by the platform, not yet processed
    posted,         \* messages posted so far
    readers,        \* read guards of the guild lock held by each handler
    writer,         \* the handler holding the write guard, if any
    waiting,        \* handlers parked in guild.write()
    pc,             \* each handler's position
    msg,            \* the message the handler was given
    color,          \* the parsed colour
    color_position, \* get_color_role_position's result
    role,           \* get_or_create_role's result
    member,         \* member.roles of the handler's own Member
    old_colors,     \* ids
    used_roles,     \* ids
    empty_roles,    \* ids still to delete
    result          \* how the handler ended

platform == <<roles, nextId, memberRoles>>
cache == <<cacheRoles, cacheMembers>>
lock == <<readers, writer, waiting>>
locals == <<msg, color, color_position, role, member, old_colors, used_roles,
            empty_roles, result>>
vars == <<roles, nextId, memberRoles, cacheRoles, cacheMembers, gateway, posted,
          readers, writer, waiting, pc, msg, color, color_position, role,
          member, old_colors, used_roles, empty_roles, result>>

Role(id, name, colour, position) ==
    [id |-> id, name |-> name, colour |-> colour, position |-> position]

NoRole == Role(0, <<>>, 0, 0)

\* MessageCreate: the n-th message posted, its author, its content, and
\* whether it was sent in the guild (msg.guild(..) is None otherwise)
Message(n, author, content, guild) ==
    [type |-> "MessageCreate", n |-> n, author |-> author, content |-> content,
     guild |-> guild]

NoMessage == Message(0, None, <<>>, FALSE)

\* the roles of the guilds a run starts from: the "colors" role at rank 5,
\* a role that is no colour, and the roles of two colours
AnchorRole == Role(1, AnchorName, 0, 5)
ModRole == Role(2, ModName, 0, 6)
InitRoleA == Role(3, role_name(ColourA), ColourA, 5)
InitRoleB == Role(4, role_name(ColourB), ColourB, 5)

Ids(rs) == {r.id : r \in rs}

\* guild.role_by_name(name) on a role set: the matching roles (none or more)
role_by_name(rs, name) == {r \in rs : r.name = name}

\* the "colors" role of a guild with more than 255 ranks below it
HighAnchorRole == Role(1, AnchorName, 0, 300)

\* the guilds a run starts from: with or without the "colors" role, the
\* member m1 holding no, one or two colour roles; the cache is up to date
\* and holds every member
SmallGuilds ==
    {[rs |-> {ModRole} \cup anchor \cup held, m1 |-> {ModRole.id} \cup Ids(held),
      cached |-> Members] :
        anchor \in {{}, {AnchorRole}},
        held \in {{}, {InitRoleA}, {InitRoleA, InitRoleB}}}

\* a large guild: the "colors" role ranks above 255, and the cache holds
\* only some of the members (m2 is not in guild.members)
LargeGuild ==
    [rs |-> {ModRole, HighAnchorRole}, m1 |-> {ModRole.id}, cached |-> {"m1"}]

InitialGuilds == SmallGuilds \cup {LargeGuild}

Init ==
    \E g \in InitialGuilds :
        /\ roles = g.rs
        /\ nextId = 5
        /\ memberRoles = [m \in Members |-> IF m = "m1" THEN g.m1 ELSE {}]
        /\ cacheRoles = g.rs
        /\ cacheMembers = [m \in g.cached |-> IF m = "m1" THEN g.m1 ELSE {}]
        /\ gateway = <<>>
        /\ posted = 0
        /\ readers = [h \in Handlers |-> 0]
        /\ writer = {}
        /\ waiting = {}
        /\ pc = [h \in Handlers |-> "idle"]
        /\ msg = [h \in Handlers |-> NoMessage]
        /\ color = [h \in Handlers |-> 0]
        /\ color_position = [h \in Handlers |-> 0]
        /\ role = [h \in Handlers |-> NoRole]
        /\ member = [h \in Handlers |-> {}]
        /\ old_colors = [h \in Handlers |-> {}]
        /\ used_roles = [h \in Handlers |-> {}]
        /\ empty_roles = [h \in Handlers |-> {}]
        /\ result = [h \in Handlers |-> None]

(* ------------------------- the guild's RwLock -------------------------- *)
\* parking_lot's RwLock: a reader is let in when no writer holds the lock
\* and none is parked waiting for it
CanRead == writer = {} /\ waiting = {}

\* a writer is let in when nobody holds the lock
CanWrite == writer = {} /\ \A h \in Handlers : readers[h] = 0

(* --------------------- operations on a role set ------------------------ *)
\* a faulty get_color_role_position: the position defaults to 0 when there
\* is no "colors" role (unwrap_or(0) for ok_or(NoColorRole))
get_color_role_position_or_zero(rs) ==
    IF role_by_name(rs, AnchorName) = {}
    THEN {0}
    ELSE {r.position % 256 : r \in role_by_name(rs, AnchorName)}

\* guild.role_by_name("colors").map(|r| r.position as u8).ok_or(NoColorRole):
\* the positions it may return; none when it fails with NoColorRole
get_color_role_position(rs) ==
    {r.position % 256 : r \in role_by_name(rs, AnchorName)}

\* member.roles(cache) filtered by the colour pattern: the ids of the cached
\* roles the member holds whose name matches
OldColors(rs, held) ==
    {r.id : r \in {x \in rs : x.id \in held /\ color_regex_is_match(x.name)}}

\* every role id some cached member holds
UsedRoles(ms) == UNION {ms[m] : m \in DOMAIN ms}

\* a faulty empty_roles: the filter role.id != used is left out
EmptyRoles_without_exempt(rs, usedRoles, used) ==
    {r.id : r \in {x \in rs : /\ color_regex_is_match(x.name)
                              /\ x.id \notin usedRoles}}

\* the cached roles named like a colour, held by nobody, other than `used`
EmptyRoles(rs, usedRoles, used) ==
    {r.id : r \in {x \in rs : /\ color_regex_is_match(x.name)
                              /\ x.id \notin usedRoles
                              /\ x.id # used}}

(* ------------------------------ steps ---------------------------------- *)
Finish(h, how) ==
    /\ pc' = [pc EXCEPT ![h] = "done"]
    /\ result' = [result EXCEPT ![h] = how]

Goto(h, where) ==
    /\ pc' = [pc EXCEPT ![h] = where]
    /\ UNCHANGED result

\* a member of the guild posts a message
Post(author, content, guild) ==
    /\ posted < MaxMessages
    /\ posted' = posted + 1
    /\ gateway' = Append(gateway, Message(posted + 1, author, content, guild))
    /\ UNCHANGED <<platform, cache, lock, pc, locals>>

\* the shard takes the next gateway event, a message: it hands it to a
\* thread of the pool
dispatch ==
    /\ gateway # <<>>
    /\ Head(gateway).type = "MessageCreate"
    /\ gateway' = Tail(gateway)
    /\ pc' = [pc EXCEPT ![Head(gateway).n] = "message"]
    /\ msg' = [msg EXCEPT ![Head(gateway).n] = Head(gateway)]
    /\ UNCHANGED <<platform, cache, posted, lock, color, color_position, role,
                   member, old_colors, used_roles, empty_roles, result>>

\* the shard takes the next gateway event, a change of the guild: it updates
\* the cached guild under the guild's write lock
cache_update ==
    /\ gateway # <<>>
    /\ gateway' = Tail(gateway)
    /\ LET e == Head(gateway) IN
       \/ /\ e.type = "GuildRoleCreate"
          /\ CanWrite
          /\ cacheRoles' = cacheRoles \cup {e.role}
          /\ UNCHANGED <<cacheMembers, pc, locals>>
       \/ /\ e.type = "GuildRoleDelete"
          /\ CanWrite
          /\ cacheRoles' = {r \in cacheRoles : r.id # e.id}
          /\ UNCHANGED <<cacheMembers, pc, locals>>
       \/ /\ e.type = "GuildMemberUpdate"
          /\ CanWrite
          /\ cacheMembers' = [m \in DOMAIN cacheMembers \cup {e.member} |->
                                  IF m = e.member THEN e.roles ELSE cacheMembers[m]]
          /\ UNCHANGED <<cacheRoles, pc, locals>>
    /\ UNCHANGED <<platform, posted, lock>>

\* main.rs:115-130
message(h) ==
    /\ pc[h] = "message"
    /\ LET parsed == parse_color(msg[h].content) IN
       IF parsed = <<>>
       THEN Finish(h, "ignored") /\ UNCHANGED color
       ELSE IF ~msg[h].guild
       THEN Finish(h, "no guild") /\ UNCHANGED color
       ELSE Goto(h, "position") /\ color' = [color EXCEPT ![h] = parsed[1]]
    /\ UNCHANGED <<platform, cache, gateway, posted, lock, msg, color_position,
                   role, member, old_colors, used_roles, empty_roles>>

\* main.rs:59
gocr_position(h) ==
    /\ pc[h] = "position"
    /\ CanRead
    /\ IF get_color_role_position(cacheRoles) = {}
       THEN Finish(h, "NoColorRole") /\ UNCHANGED color_position
       ELSE /\ Goto(h, "lookup")
            /\ \E p \in get_color_role_position(cacheRoles) :
                  color_position' = [color_position EXCEPT ![h] = p]
    /\ UNCHANGED <<platform, cache, gateway, posted, lock, msg, color, role,
                   member, old_colors, used_roles, empty_roles>>

\* main.rs:60-62
gocr_lookup(h) ==
    /\ pc[h] = "lookup"
    /\ CanRead
    /\ LET found == role_by_name(cacheRoles, role_name(color[h])) IN
       IF found # {}
       THEN /\ \E r \in found : role' = [role EXCEPT ![h] = r]
            /\ Goto(h, "guild_read")
       ELSE /\ Goto(h, "create")
            /\ UNCHANGED role
    /\ UNCHANGED <<platform, cache, gateway, posted, lock, msg, color,
                   color_position, member, old_colors, used_roles, empty_roles>>

\* the role create_role asks the platform for
NewRole(h) == Role(nextId, role_name(color[h]), color[h], color_position[h])

\* main.rs:64-68: guild.write().create_role(..)?
gocr_create(h) ==
    /\ pc[h] = "create"
    /\ \/ /\ ~CanWrite
          /\ h \notin waiting
          /\ waiting' = waiting \cup {h}
          /\ UNCHANGED <<platform, gateway, pc, role, result, readers, writer>>
       \/ /\ CanWrite
          /\ waiting' = waiting \ {h}
          /\ UNCHANGED <<readers, writer>>
          /\ \/ /\ roles' = roles \cup {NewRole(h)}
                /\ nextId' = nextId + 1
                /\ gateway' = Append(gateway, [type |-> "GuildRoleCreate",
                                               role |-> NewRole(h)])
                /\ role' = [role EXCEPT ![h] = NewRole(h)]
                /\ Goto(h, "guild_read")
                /\ UNCHANGED memberRoles
             \/ /\ Finish(h, "DiscordError")
                /\ UNCHANGED <<platform, gateway, role>>
    /\ UNCHANGED <<cache, posted, msg, color, color_position, member,
                   old_colors, used_roles, empty_roles>>

\* main.rs:75: guild.read() ...
assign_guild_read(h) ==
    /\ pc[h] = "guild_read"
    /\ CanRead
    /\ readers' = [readers EXCEPT ![h] = 1]
    /\ Goto(h, "member")
    /\ UNCHANGED <<platform, cache, gateway, posted, writer, waiting, locals>>

\* main.rs:75: ... .member(&context, user.id)?, which reads the member from
\* the cached guild under a second read guard of the same lock; the handler
\* gets its own copy of the member.  A member the cache does not hold is
\* fetched from the platform, and the fetch may fail.
assign_member(h) ==
    /\ pc[h] = "member"
    /\ CanRead
    /\ readers' = [readers EXCEPT ![h] = 0]
    /\ \/ /\ msg[h].author \in DOMAIN cacheMembers
          /\ member' = [member EXCEPT ![h] = cacheMembers[msg[h].author]]
          /\ Goto(h, "old_colors")
       \/ /\ msg[h].author \notin DOMAIN cacheMembers
          /\ member' = [member EXCEPT ![h] = memberRoles[msg[h].author]]
          /\ Goto(h, "old_colors")
       \/ /\ msg[h].author \notin DOMAIN cacheMembers
          /\ Finish(h, "DiscordError")
          /\ UNCHANGED member
    /\ UNCHANGED <<platform, cache, gateway, posted, writer, waiting, msg, color,
                   color_position, role, old_colors, used_roles, empty_roles>>

\* main.rs:77-80
assign_old_colors(h) ==
    /\ pc[h] = "old_colors"
    /\ CanRead
    /\ old_colors' = [old_colors EXCEPT ![h] = OldColors(cacheRoles, member[h])]
    /\ Goto(h, "remove_roles")
    /\ UNCHANGED <<platform, cache, gateway, posted, lock, msg, color,
                   color_position, role, member, used_roles, empty_roles>>

\* the platform tells the shard a member's roles when they changed
MemberUpdate(m, held) ==
    IF held = memberRoles[m]
    THEN gateway
    ELSE Append(gateway, [type |-> "GuildMemberUpdate", member |-> m,
                          roles |-> held])

\* what Member::remove_roles sends as the member's roles
RolesAfterRemove(held, removed) == held \ removed

\* main.rs:81: member.remove_roles(..)?: the handler's member loses the roles
\* and the platform is told to set the member's roles to what is left
assign_remove_roles(h) ==
    /\ pc[h] = "remove_roles"
    /\ LET left == RolesAfterRemove(member[h], old_colors[h]) IN
       \/ /\ left \subseteq Ids(roles)
          /\ memberRoles' = [memberRoles EXCEPT ![msg[h].author] = left]
          /\ gateway' = MemberUpdate(msg[h].author, left)
          /\ member' = [member EXCEPT ![h] = left]
          /\ Goto(h, "add_role")
          /\ UNCHANGED <<roles, nextId>>
       \/ /\ Finish(h, "DiscordError")
          /\ UNCHANGED <<platform, gateway, member>>
    /\ UNCHANGED <<cache, posted, lock, msg, color, color_position, role,
                   old_colors, used_roles, empty_roles>>

\* a faulty main.rs:82, the error of add_role dropped (no `?`): the handler
\* goes on to cleanup_roles when the role could not be added
assign_add_role_ignoring_error(h) ==
    /\ pc[h] = "add_role"
    /\ \/ /\ role[h].id \in member[h]
          /\ Goto(h, "used_roles")
          /\ UNCHANGED <<platform, gateway, member>>
       \/ /\ role[h].id \notin member[h]
          /\ role[h].id \in Ids(roles)
          /\ memberRoles' = [memberRoles EXCEPT ![msg[h].author] = @ \cup {role[h].id}]
          /\ gateway' = MemberUpdate(msg[h].author,
                                     memberRoles[msg[h].author] \cup {role[h].id})
          /\ member' = [member EXCEPT ![h] = @ \cup {role[h].id}]
          /\ Goto(h, "used_roles")
          /\ UNCHANGED <<roles, nextId>>
       \/ /\ role[h].id \notin member[h]
          /\ Goto(h, "used_roles")
          /\ UNCHANGED <<platform, gateway, member>>
    /\ UNCHANGED <<cache, posted, lock, msg, color, color_position, role,
                   old_colors, used_roles, empty_roles>>

\* main.rs:82: member.add_role(..)?: nothing is sent when the handler's
\* member already has the role
assign_add_role(h) ==
    /\ pc[h] = "add_role"
    /\ \/ /\ role[h].id \in member[h]
          /\ Goto(h, "used_roles")
          /\ UNCHANGED <<platform, gateway, member>>
       \/ /\ role[h].id \notin member[h]
          /\ role[h].id \in Ids(roles)
          /\ memberRoles' = [memberRoles EXCEPT ![msg[h].author] = @ \cup {role[h].id}]
          /\ gateway' = MemberUpdate(msg[h].author,
                                     memberRoles[msg[h].author] \cup {role[h].id})
          /\ member' = [member EXCEPT ![h] = @ \cup {role[h].id}]
          /\ Goto(h, "used_roles")
          /\ UNCHANGED <<roles, nextId>>
       \/ /\ role[h].id \notin member[h]
          /\ Finish(h, "DiscordError")
          /\ UNCHANGED <<platform, gateway, member>>
    /\ UNCHANGED <<cache, posted, lock, msg, color, color_position, role,
                   old_colors, used_roles, empty_roles>>

\* main.rs:88-91
cleanup_used_roles(h) ==
    /\ pc[h] = "used_roles"
    /\ CanRead
    /\ used_roles' = [used_roles EXCEPT ![h] = UsedRoles(cacheMembers)]
    /\ Goto(h, "empty_roles")
    /\ UNCHANGED <<platform, cache, gateway, posted, lock, msg, color,
                   color_position, role, member, old_colors, empty_roles>>

\* main.rs:93-99
cleanup_empty_roles(h) ==
    /\ pc[h] = "empty_roles"
    /\ CanRead
    /\ empty_roles' = [empty_roles EXCEPT ![h] =
                          EmptyRoles(cacheRoles, used_roles[h], role[h].id)]
    /\ Goto(h, "write")
    /\ UNCHANGED <<platform, cache, gateway, posted, lock, msg, color,
                   color_position, role, member, old_colors, used_roles>>

\* main.rs:101: let guild = guild.write();
cleanup_write(h) ==
    /\ pc[h] = "write"
    /\ \/ /\ ~CanWrite
          /\ h \notin waiting
          /\ waiting' = waiting \cup {h}
          /\ UNCHANGED <<writer, pc, result>>
       \/ /\ CanWrite
          /\ waiting' = waiting \ {h}
          /\ writer' = {h}
          /\ Goto(h, "delete")
    /\ UNCHANGED <<platform, cache, gateway, posted, readers, msg, color,
                   color_position, role, member, old_colors, used_roles,
                   empty_roles>>

\* a faulty end of cleanup_roles: when a delete fails the assignment is
\* undone (the new role taken back, the previous colour roles given back)
members_after_failed_delete_rolled_back(h) ==
    [memberRoles EXCEPT ![msg[h].author] = (@ \ {role[h].id}) \cup old_colors[h]]

\* main.rs:103: the `?` of a failed delete_role returns the error; nothing
\* done before is undone, the members' roles stay as they are
members_after_failed_delete(h) == memberRoles

\* main.rs:102-105: one turn of the loop, or its end; the write guard is
\* dropped when the function returns.  The platform takes a deleted role
\* from every member.
cleanup_delete(h) ==
    /\ pc[h] = "delete"
    /\ \/ /\ empty_roles[h] = {}
          /\ writer' = {}
          /\ Finish(h, "Ok")
          /\ UNCHANGED <<platform, gateway, empty_roles>>
       \/ \E id \in empty_roles[h] :
             \/ /\ id \in Ids(roles)
                /\ roles' = {r \in roles : r.id # id}
                /\ memberRoles' = [m \in Members |-> memberRoles[m] \ {id}]
                /\ gateway' = Append(gateway, [type |-> "GuildRoleDelete", id |-> id])
                /\ empty_roles' = [empty_roles EXCEPT ![h] = @ \ {id}]
                /\ UNCHANGED <<nextId, writer, pc, result>>
             \/ /\ writer' = {}
                /\ Finish(h, "DiscordError")
                /\ memberRoles' = members_after_failed_delete(h)
                /\ UNCHANGED <<roles, nextId, gateway, empty_roles>>
    /\ UNCHANGED <<cache, posted, readers, waiting, msg, color, color_position,
                   role, member, old_colors, used_roles>>

Handle(h) ==
    \/ message(h)
    \/ gocr_position(h)
    \/ gocr_lookup(h)
    \/ gocr_create(h)
    \/ assign_guild_read(h)
    \/ assign_member(h)
    \/ assign_old_colors(h)
    \/ assign_remove_roles(h)
    \/ assign_add_role(h)
    \/ cleanup_used_roles(h)
    \/ cleanup_empty_roles(h)
    \/ cleanup_write(h)
    \/ cleanup_delete(h)

Next ==
    \/ \E author \in Members, content \in Texts, guild \in BOOLEAN :
          Post(author, content, guild)
    \/ dispatch
    \/ cache_update
    \/ \E h \in Handlers : Handle(h)

Spec == Init /\ [][Next]_vars

\* a handler is between the start and the end of Handler::message
Busy == \E h \in Handlers : pc[h] \notin {"idle", "done"}

\* the runs of Spec in which a message is started only when no other is
\* being handled: calls follow one another, no two handlers overlap
dispatch_idle == ~Busy /\ dispatch

NextSeq ==
    \/ \E author \in Members, content \in Texts, guild \in BOOLEAN :
          Post(author, content, guild)
    \/ dispatch_idle
    \/ cache_update
    \/ \E h \in Handlers : Handle(h)

SpecSeq == Init /\ [][NextSeq]_vars

\* cleanup_roles called once more by a handler that has returned Ok, on the
\* same guild and with the same `used` role (role[h]), while no handler runs
collect_again(h) ==
    /\ ~Busy
    /\ pc[h] = "done"
    /\ result[h] = "Ok"
    /\ pc' = [pc EXCEPT ![h] = "used_roles"]
    /\ UNCHANGED <<platform, cache, gateway, posted, lock, locals>>

\* the sequential runs, with cleanup_roles repeated
NextCollect ==
    \/ \E author \in Members, content \in Texts, guild \in BOOLEAN :
          Post(author, content, guild)
    \/ dispatch_idle
    \/ cache_update
    \/ \E h \in Handlers : Handle(h)
    \/ \E h \in Handlers : collect_again(h)

SpecCollect == Init /\ [][NextCollect]_vars

(* ------------------------------ claims --------------------------------- *)
\* the guild's roles named like a colour that member m holds
HeldColours(rs, held) == {r \in rs : r.id \in held /\ color_regex_is_match(r.name)}

\* handler h returns from Handler::message in this step
Completes(h) == pc[h] # "done" /\ pc'[h] = "done"

\* handler h takes a step
Steps(h) ==
    \/ pc'[h] # pc[h]
    \/ empty_roles'[h] # empty_roles[h]
    \/ (h \in waiting') # (h \in waiting)

\* the colour handler h's message names, as an Option
Parsed(h) == parse_color(msg[h].content)

\* C1: in every reachable state the guild holds at most one role named with
\* the textual form of a given colour, however many messages are handled at
\* the same time.
C1_OneRolePerColour ==
    \A r1 \in roles : \A r2 \in roles :
        (color_regex_is_match(r1.name) /\ r1.name = r2.name) => r1.id = r2.id

\* C2: whenever an assignment for member M with colour C returns Ok, M holds
\* exactly one role named like a colour, and it is named for C.
C2_ExactlyTheNewColour ==
    [][\A h \in Handlers :
          (Completes(h) /\ result'[h] = "Ok") =>
              LET held == HeldColours(roles', memberRoles'[msg[h].author]) IN
              /\ Cardinality(held) = 1
              /\ \A r \in held : r.name = role_name(color[h])]_vars

\* C3: when two messages of one member naming different acceptable colours
\* were handled at the same time and both assignments returned Ok, then once
\* every handler has returned the member holds at most one colour role.
C3_OneColourAfterConcurrentAssignments ==
    \A h1 \in Handlers : \A h2 \in Handlers :
        ( /\ \A h \in Handlers : pc[h] = "done"
          /\ result[h1] = "Ok" /\ result[h2] = "Ok"
          /\ msg[h1].author = msg[h2].author
          /\ color[h1] # color[h2]
          /\ isAcceptable(color[h1]) /\ isAcceptable(color[h2]) )
        => Cardinality(HeldColours(roles, memberRoles[msg[h1].author])) <= 1

\* C4: a role the collector deletes is held by no member of the guild at the
\* moment of the deletion.
C4_DeletesOnlyUnheldRoles ==
    [][\A r \in roles :
          r.id \notin Ids(roles') => \A m \in Members : r.id \notin memberRoles[m]]_vars

\* C5: a collection pass invoked with the exempt role id E never issues a
\* delete for E, whatever membership the collector read.
C5_ExemptNeverDeleted ==
    \A h \in Handlers : pc[h] \in {"write", "delete"} => role[h].id \notin empty_roles[h]

\* C5 witness: a pass whose read of the members did not show the exempt role
\* as held, which is deleting other roles.
C5_Witness ==
    \E h \in Handlers :
        /\ pc[h] = "delete"
        /\ role[h].id \notin used_roles[h]
        /\ role[h] \in cacheRoles
        /\ empty_roles[h] # {}

\* C6: when an assignment returns Ok and no other handler is running, every
\* role of the guild named like a colour is held by some member.
C6_NoLeakedColourRoles ==
    [][\A h \in Handlers :
          ( /\ Completes(h) /\ result'[h] = "Ok"
            /\ \A g \in Handlers \ {h} : pc[g] \in {"idle", "done"} )
          => \A r \in roles' :
                color_regex_is_match(r.name) => \E m \in Members : r.id \in memberRoles'[m]]_vars

\* the guild has no role named "colors"
NoAnchor == role_by_name(roles, AnchorName) = {}

\* C7: if the guild has no role named "colors", every assignment fails with
\* NoColorRole and nothing is changed: no role is created or deleted and no
\* member's roles change.
C7_NoAnchorNoMutation ==
    [][NoAnchor =>
          /\ roles' = roles
          /\ memberRoles' = memberRoles
          /\ \A h \in Handlers :
                (Completes(h) /\ Parsed(h) # <<>> /\ msg[h].guild)
                    => result'[h] = "NoColorRole"]_vars

\* C7 witness: an assignment failed with NoColorRole in a guild that has a
\* role for the colour asked for.
C7_Witness ==
    \E h \in Handlers :
        /\ NoAnchor
        /\ result[h] = "NoColorRole"
        /\ role_by_name(roles, role_name(color[h])) # {}

\* C8: a message whose colour fails the contrast check (ratio at or below
\* the threshold) changes neither the guild's roles nor any member's roles.
C8_LowContrastChangesNothing ==
    [][\A h \in Handlers :
          ( /\ Steps(h)
            /\ Parsed(h) # <<>>
            /\ ~isAcceptable(Parsed(h)[1]) )
          => (roles' = roles /\ memberRoles' = memberRoles)]_vars

\* C9: when resolve-or-create returns a role and the guild already had a role
\* of that name (a call that follows another for the same colour), it returns
\* that role unchanged and creates none.
C9_ResolveIsIdempotent ==
    [][\A h \in Handlers :
          ( /\ pc[h] \in {"lookup", "create"}
            /\ pc'[h] = "guild_read"
            /\ role_by_name(roles, role_name(color[h])) # {} )
          => ( /\ role'[h] \in role_by_name(roles, role_name(color[h]))
               /\ roles' = roles )]_vars

\* the positions between the start of resolve-or-create and the end of the
\* orphan collection
InTransaction ==
    {"position", "lookup", "create", "guild_read", "member", "old_colors",
     "remove_roles", "add_role", "used_roles", "empty_roles", "write", "delete"}

\* C10: at no time are two handlers of the guild between the start of
\* resolve-or-create and the end of the orphan collection.
C10_MutualExclusion ==
    \A h1 \in Handlers : \A h2 \in Handlers :
        (pc[h1] \in InTransaction /\ pc[h2] \in InTransaction) => h1 = h2

(* -------------------------------- C11 --------------------------------- *)
\* C11: a role the bot creates is requested at the position the "colors"
\* role has at that moment, whatever that position is (above 255 too).
C11_CreatedAtAnchorPosition ==
    [][\A r \in roles' \ roles :
          \A a \in role_by_name(roles, AnchorName) : r.position = a.position]_vars

(* -------------------------------- C12 --------------------------------- *)
\* handler h runs cleanup_roles again after a pass that returned Ok
Repeating(h) == pc[h] \in {"used_roles", "empty_roles", "write", "delete"}
                /\ result[h] = "Ok"

\* C12: a second collection pass right after a first one, with the same
\* exempt role and nothing else done to the guild in between, deletes no
\* role and reports no error: the guild's roles are those the first pass left.
C12_CollectorIsIdempotent ==
    [][\A h \in Handlers :
          (Repeating(h) /\ \A g \in Handlers \ {h} : pc[g] = "idle")
             => (roles' = roles /\ result'[h] = "Ok")]_vars

(* -------------------------------- C13 --------------------------------- *)
\* handler h returns DiscordError from the delete loop in this step
DeleteFails(h) == pc[h] = "delete" /\ Completes(h) /\ result'[h] = "DiscordError"

\* C13: when a delete fails during collection the handler reports
\* DiscordError and the assignment stays: the failing step changes no role
\* and no member, and (nobody else having touched the guild) the author
\* holds the new role and none of the colour roles taken from them.
C13_NoRollbackOnDeleteFailure ==
    [][\A h \in Handlers :
          DeleteFails(h) =>
             /\ memberRoles' = memberRoles
             /\ roles' = roles
             /\ (\A g \in Handlers \ {h} : pc[g] = "idle") =>
                   /\ role[h].id \in memberRoles'[msg[h].author]
                   /\ memberRoles'[msg[h].author]
                         \cap (old_colors[h] \ {role[h].id}) = {}]_vars

\* a handler that took a colour role from its author, gave the new one and
\* then failed to delete a role
C13_Witness ==
    \E h \in Handlers :
        /\ pc[h] = "done"
        /\ result[h] = "DiscordError"
        /\ empty_roles[h] # {}
        /\ old_colors[h] \ {role[h].id} # {}
        /\ role[h].id \in memberRoles[msg[h].author]

(* -------------------------------- C14 --------------------------------- *)
\* the feedback signal handler h has put on its message: Handler::message
\* reports by println! only (main.rs:120, 122, 125) and reacts to no message
reaction(h) == None

\* the handler was given a colour the contrast check of the specification
\* rejects
Rejected(h) == Parsed(h) # <<>> /\ ~isAcceptable(Parsed(h)[1])

\* C14: a handler that has returned gave positive feedback exactly when the
\* transaction succeeded, negative feedback exactly when the colour was
\* rejected for its contrast, and no feedback in every other case.
C14_FeedbackMatchesOutcome ==
    \A h \in Handlers :
        pc[h] = "done" =>
           /\ reaction(h) = "positive" <=> result[h] = "Ok"
           /\ reaction(h) = "negative" <=> Rejected(h)
           /\ reaction(h) \in {"positive", "negative", None}

(* -------------------------------- C15 --------------------------------- *)
\* the canonical text of a colour as the specification gives it: "#" and
\* six lowercase hex digits
canonical_text(colour) ==
    <<"#", LowerHex[((colour \div 1048576) % 16) + 1],
      LowerHex[((colour \div 65536) % 16) + 1],
      LowerHex[((colour \div 4096) % 16) + 1],
      LowerHex[((colour \div 256) % 16) + 1],
      LowerHex[((colour \div 16) % 16) + 1],
      LowerHex[(colour % 16) + 1]>>

\* texts naming colours in either letter case
CaseTexts ==
    {TextA, <<"#","A","B","C","D","E","F">>, <<"#","a","B","c","D","e","F">>,
     TextB, <<"#","f","f","0","0","a","a">>, TextLow, <<"#","3","6","3","9","3","E">>}

\* two texts that differ at most in the case of their hex digits
SameButCase(t, u) ==
    /\ Len(t) = Len(u)
    /\ \A i \in 1..Len(t) :
          \/ t[i] = u[i]
          \/ IsHexDigit(t[i]) /\ IsHexDigit(u[i]) /\ HexValue(t[i]) = HexValue(u[i])

\* C15: the role a handler resolves for a colour carries the canonical
\* lowercase name (#1a2b3c for a posted #1A2B3C), and texts that differ only
\* in letter case resolve to the same role name.
C15_CanonicalLowercaseName ==
    /\ \A h \in Handlers : role[h] # NoRole => role[h].name = canonical_text(color[h])
    /\ \A t \in CaseTexts : \A u \in CaseTexts :
          SameButCase(t, u) =>
             role_name(parse_color(t)[1]) = role_name(parse_color(u)[1])

(* -------------------------------- C16 --------------------------------- *)
\* handler h was given a text that is not exactly "#" and six hex digits
NotAColour(h) == msg[h] # NoMessage /\ msg[h].content \in BadTexts

\* C16: a message whose text is not exactly "#" and six hex digits is a
\* no-op: its handler returns from the parse without looking up, creating,
\* assigning or deleting anything.
C16_NonMatchingIsNoOp ==
    [][\A h \in Handlers :
          /\ NotAColour(h)' =>
                /\ pc'[h] \in {"message", "done"}
                /\ role'[h] = NoRole
                /\ pc'[h] = "done" => result'[h] = "ignored"
          /\ (NotAColour(h) /\ pc'[h] # pc[h]) =>
                /\ roles' = roles
                /\ memberRoles' = memberRoles
                /\ gateway' = gateway
                /\ lock' = lock]_vars

\* a sentence with a colour inside has been ignored in a guild that has roles
\* to assign and to collect
C16_Witness ==
    \E h \in Handlers :
        /\ pc[h] = "done"
        /\ result[h] = "ignored"
        /\ msg[h].guild
        /\ Len(msg[h].content) > 7
        /\ role_by_name(roles, AnchorName) # {}

(* -------------------------------- C17 --------------------------------- *)
\* the order of assign_color: resolve the role (position, lookup, create),
\* fetch the member, remove the previous colour roles, add the new role,
\* collect (used_roles .. delete); every position may also end the handler
StepOrder ==
    {<<"position", "lookup">>, <<"lookup", "create">>, <<"lookup", "guild_read">>,
     <<"create", "guild_read">>, <<"guild_read", "member">>,
     <<"member", "old_colors">>, <<"old_colors", "remove_roles">>,
     <<"remove_roles", "add_role">>, <<"add_role", "used_roles">>,
     <<"used_roles", "empty_roles">>, <<"empty_roles", "write">>,
     <<"write", "delete">>}

\* handler h ends with an error in this step
Fails(h) == Completes(h) /\ result'[h] \in {"DiscordError", "NoColorRole"}

\* C17: the steps of a transaction run in the order resolve, fetch, remove,
\* add, collect, each completed before the next begins, and a step that
\* fails is the handler's last: the failing step changes nothing, roles are
\* created only by the resolve step, members changed only by the remove, add
\* and delete steps, roles deleted only by the collector, which runs only
\* after the add has succeeded.
C17_StepsInOrderFailureStops ==
    [][\A h \in Handlers :
          /\ pc[h] = "done" => pc'[h] = "done"
          /\ (pc[h] \in InTransaction /\ pc'[h] # pc[h]) =>
                \/ <<pc[h], pc'[h]>> \in StepOrder
                \/ Fails(h) /\ roles' = roles /\ memberRoles' = memberRoles
                \/ pc[h] = "delete" /\ Completes(h) /\ result'[h] = "Ok"
          /\ (pc[h] = "remove_roles" /\ pc'[h] = "add_role") =>
                /\ member'[h] = member[h] \ old_colors[h]
                /\ memberRoles'[msg[h].author] = member'[h]
          /\ (pc[h] = "add_role" /\ pc'[h] = "used_roles") =>
                role[h].id \in member'[h]
          /\ Steps(h) =>
                /\ (roles' \ roles # {}) => pc[h] = "create"
                /\ (roles \ roles' # {}) => pc[h] = "delete"
                /\ memberRoles' # memberRoles
                      => pc[h] \in {"remove_roles", "add_role", "delete"}]_vars

\* the fetch or the removal failed for a member the cache does not hold: the
\* resolved role exists and the author has not been given it
C17_Witness ==
    \E h \in Handlers :
        /\ pc[h] = "done"
        /\ result[h] = "DiscordError"
        /\ msg[h].author \notin DOMAIN cacheMembers
        /\ role[h] # NoRole
        /\ role[h].id \in Ids(roles)
        /\ role[h].id \notin memberRoles[msg[h].author]
        /\ empty_roles[h] = {}

(* -------------------------------- C18 --------------------------------- *)
\* handler h has given role[h] to its author (add_role returned Ok)
HasAdded(h) ==
    \/ pc[h] \in {"used_roles", "empty_roles", "write", "delete"}
    \/ pc[h] = "done" /\ result[h] = "Ok"
    \/ pc[h] = "done" /\ result[h] = "DiscordError" /\ empty_roles[h] # {}

\* C18: under any interleaving every colour role a member holds exists in
\* the guild, and a role that a transaction has given to its member is not
\* deleted from under that member by another transaction's collector.
C18_ReferentialIntegrity ==
    [][/\ \A m \in Members : memberRoles'[m] \subseteq Ids(roles')
       /\ \A h \in Handlers :
             (HasAdded(h) /\ role[h].id \in memberRoles[msg[h].author])
                => role[h].id \in Ids(roles')]_vars

(* -------------------------------- C19 --------------------------------- *)
\* the roles of rs whose names are no colour names
NonColour(rs) == {r \in rs : ~color_regex_is_match(r.name)}

\* C19: roles that are not named like a colour are never touched: no step
\* deletes or alters one (the "colors" role included) or takes one from a
\* member, and a handler's step changes the role set of no member but the
\* author of its message.
C19_NonColourRolesUntouched ==
    [][/\ roles' # roles => NonColour(roles') = NonColour(roles)
       /\ memberRoles' # memberRoles =>
             /\ \A m \in Members :
                   memberRoles'[m] \cap Ids(NonColour(roles'))
                      = memberRoles[m] \cap Ids(NonColour(roles))
             /\ \A h \in Handlers :
                   Steps(h) => \A m \in Members \ {msg[h].author} :
                                  memberRoles'[m] = memberRoles[m]]_vars

(* -------------------------------- C20 --------------------------------- *)
\* C20: no handler waits for ever on the guild's lock.  Only handlers hold
\* or wait for the lock between steps, so a handler waits for ever exactly
\* when some handler is running and no handler can take a step; the claim
\* says no such state is reached.
C20_NoHandlerWaitsForever ==
    Busy => ENABLED (\E h \in Handlers : Handle(h))

=============================================================================
